---- MODULE Spec2Model ----
(***************************************************************************)
(* RunAnywhere sandbox execution: the security gate (SecurityManager), the *)
(* sandbox registry (SandboxManager), the orchestrator                     *)
(* (ExecutionController) and the HTTP endpoints that drive them.           *)
(*                                                                         *)
(* Every request is one execution e.  Its handler is followed statement    *)
(* group by statement group through pc[e]; the runtime calls it makes are  *)
(* recorded in calls[e] in the order in which they are made.               *)
(***************************************************************************)
EXTENDS Integers, Sequences, FiniteSets, TLC

\* ------------------------------------------------------------------ bounds
MaxExec == 1

Execs == 1..MaxExec

NoneVal == "None"

\* The sandbox id of a result that never provisioned one (Python None).
NoSandbox == 0

\* No POST /sandbox/cleanup is being responded to.
NoCount == -1

\* ------------------------------------------------------------ SecurityGate
RiskOrder == <<"safe", "low", "medium", "high">>

RiskIndex(r) == CHOOSE i \in 1..Len(RiskOrder) : RiskOrder[i] = r

\* Mutant of MaxRisk: the later level replaces the earlier one.
MaxRisk_Later(a, b) == b

\* max(a, b, key=index in ["safe","low","medium","high"])
MaxRisk(a, b) == IF RiskIndex(b) > RiskIndex(a) THEN b ELSE a

\* Languages that own a deny-list.
DANGEROUS_PATTERNS == {"python", "javascript", "bash"}

\* str.lower() on the language names the model uses.
Lower(s) ==
    CASE s = "Python" -> "python"
      [] s = "JavaScript" -> "javascript"
      [] s = "Java" -> "java"
      [] s = "Dart" -> "dart"
      [] s = "Ruby" -> "ruby"
      [] s = "React" -> "react"
      [] s = "Docker" -> "docker"
      [] s = "TypeScript" -> "typescript"
      [] s = "Go" -> "go"
      [] s = "Rust" -> "rust"
      [] s = "Flutter" -> "flutter"
      [] s = "Spring" -> "spring"
      [] OTHER -> s

\* A source text is described by what the checks of validate_code see in it:
\*   deny      the languages whose deny-list has a pattern matching the text
\*   big       len(code) > 100000
\*   loop      one of the loop heuristics matches
\*   encodable code.encode('utf-8') succeeds (no lone surrogate)
\*   halts     the program ends by itself when it is run
CodeInputs ==
    { [deny |-> {}, big |-> FALSE, loop |-> FALSE, encodable |-> TRUE,
       halts |-> TRUE],
      [deny |-> {"python"}, big |-> FALSE, loop |-> FALSE, encodable |-> TRUE,
       halts |-> TRUE],
      [deny |-> {}, big |-> FALSE, loop |-> TRUE, encodable |-> TRUE,
       halts |-> FALSE],
      [deny |-> {}, big |-> FALSE, loop |-> FALSE, encodable |-> FALSE,
       halts |-> TRUE] }

SnippetLanguages == {"Python", "ruby"}

SnippetTimeouts == {5, 130}

\* validate_code given None for the code (language is None: NoneVal).
AbsentCode == [absent |-> TRUE]

\* raised: language.lower() (None has no lower) or the first re.findall /
\* len on a code that is None raised, nothing is returned.
validate_code(code, language, strict_mode) ==
  IF language = NoneVal \/ code = AbsentCode
    THEN [raised |-> TRUE, is_safe |-> FALSE, risk_level |-> "safe",
          issues |-> << >>, strict_mode |-> strict_mode]
  ELSE
    LET matched == Lower(language) \in DANGEROUS_PATTERNS
                   /\ Lower(language) \in code.deny
        r1 == IF matched THEN "high" ELSE "safe"
        r2 == IF code.big THEN MaxRisk(r1, "medium") ELSE r1
        r3 == IF code.loop THEN MaxRisk(r2, "medium") ELSE r2
        issues ==
            (IF matched
               THEN << [type |-> "dangerous_pattern",
                        severity |-> IF strict_mode THEN "high" ELSE "medium"] >>
               ELSE << >>)
            \o (IF code.big
                  THEN << [type |-> "code_too_large", severity |-> "medium"] >>
                  ELSE << >>)
            \o (IF code.loop
                  THEN << [type |-> "potential_infinite_loop", severity |-> "medium"] >>
                  ELSE << >>)
    IN  [raised |-> FALSE,
         is_safe |-> (r3 # "high") \/ ~strict_mode,
         risk_level |-> r3,
         issues |-> issues,
         strict_mode |-> strict_mode]

\* A URL is the sequence of its textual pieces: the pieces of the host
\* followed by the pieces of everything after the host.
safe_domains == {"github.com", "gitlab.com", "bitbucket.org"}

UrlInputs ==
    { [host |-> <<"github.com">>, rest |-> <<"x/y">>],
      [host |-> <<"evil.example">>, rest |-> <<"x/y">>],
      [host |-> <<"evil.example">>, rest |-> <<"github.com", "x/y">>],
      [host |-> <<"github.com">>, rest |-> <<"x/y", ";", "id">>],
      [host |-> << >>, rest |-> << >>] }

UrlText(url) == url.host \o url.rest

\* SecurityManager.get_resource_limits: limits.get(execution_type,
\* limits["snippet"]). cpu_cores is kept in tenths of a core.
get_resource_limits(execution_type) ==
    LET limits ==
          [snippet |-> [memory_mb |-> 256, cpu_cores |-> 5,
                        timeout_seconds |-> 30, network_enabled |-> FALSE,
                        disk_mb |-> 100],
           repo |-> [memory_mb |-> 1024, cpu_cores |-> 20,
                     timeout_seconds |-> 300, network_enabled |-> TRUE,
                     disk_mb |-> 1000],
           batch |-> [memory_mb |-> 2048, cpu_cores |-> 40,
                      timeout_seconds |-> 600, network_enabled |-> TRUE,
                      disk_mb |-> 2000],
           readme_test |-> [memory_mb |-> 512, cpu_cores |-> 10,
                            timeout_seconds |-> 120, network_enabled |-> TRUE,
                            disk_mb |-> 500]]
    IN  IF execution_type \in DOMAIN limits
          THEN limits[execution_type] ELSE limits["snippet"]

\* The characters sanitize_command removes ("backquote" stands for the
\* backquote character, which a TLA+ string cannot hold).
dangerous_chars ==
    {";", "&", "|", "backquote", "$", "(", ")", "<", ">", "\n", "\r"}

\* SecurityManager.sanitize_command on a text given in pieces: the pieces
\* that are dangerous characters are removed.
sanitize_command(command) ==
    SelectSeq(command, LAMBDA piece : piece \notin dangerous_chars)

\* The command of the clone step: f"git clone {repo_url} /tmp/repo".
clone_command(repo_url) == <<"git clone ">> \o UrlText(repo_url) \o <<" /tmp/repo">>

\* re.search(domain, repo_url): the domain occurs anywhere in the text.
validate_repository_url(repo_url) ==
    \E d \in safe_domains :
        \E i \in 1..Len(UrlText(repo_url)) : UrlText(repo_url)[i] = d

\* ------------------------------------------------------- runtime detection
\* `needle in hay` for the lower-cased language strings of the model.
Contains(needle, hay) ==
    \/ needle = hay
    \/ needle = ""
    \/ <<needle, hay>> \in { <<"java", "javascript">> }

LowerAll(tags) == [i \in 1..Len(tags) |-> Lower(tags[i])]

AnyTag(tags, names) == \E i \in 1..Len(tags) : tags[i] \in names

\* Repository metadata: the declared language (possibly null) and the tags.
MetadataInputs ==
    { [language |-> NoneVal, tech_stack |-> << >>],
      [language |-> "", tech_stack |-> << >>],
      [language |-> "Python", tech_stack |-> << >>],
      [language |-> "JavaScript", tech_stack |-> << >>],
      [language |-> "", tech_stack |-> <<"Docker">>] }

RepoTimeouts == {300}

\* Mutant of NoAnalysis: the analysis starts with a confidence of 0.5.
NoAnalysis_HalfConfident ==
    [raised |-> FALSE, is_executable |-> FALSE, detected_runtime |-> NoneVal,
     setup_commands |-> << >>, test_command |-> NoneVal,
     build_command |-> NoneVal, confidence |-> 50, requires_docker |-> FALSE]

NoAnalysis ==
    [raised |-> FALSE, is_executable |-> FALSE, detected_runtime |-> NoneVal,
     setup_commands |-> << >>, test_command |-> NoneVal,
     build_command |-> NoneVal, confidence |-> 0, requires_docker |-> FALSE]

\* confidence is kept in hundredths (0.85 -> 85).
analyze_repository_executability(repo_data) ==
    IF repo_data.language = NoneVal
      THEN [NoAnalysis EXCEPT !.raised = TRUE]   \* None.lower(): AttributeError
      ELSE
        LET language == Lower(repo_data.language)
            tech == LowerAll(repo_data.tech_stack)
            base ==
              IF Contains("python", language) \/ AnyTag(tech, {"python"})
                THEN [NoAnalysis EXCEPT
                        !.is_executable = TRUE, !.detected_runtime = "python",
                        !.setup_commands =
                            <<"pip install --upgrade pip",
                              "pip install -r requirements.txt || echo 'No requirements.txt found'">>,
                        !.test_command = "pytest || python -m unittest discover",
                        !.confidence = 85]
              ELSE IF Contains("javascript", language) \/ Contains("typescript", language)
                      \/ AnyTag(tech, {"node", "react", "vue", "angular", "nextjs"})
                THEN [NoAnalysis EXCEPT
                        !.is_executable = TRUE, !.detected_runtime = "node",
                        !.setup_commands = <<"npm install || yarn install">>,
                        !.test_command = "npm test",
                        !.build_command = "npm run build",
                        !.confidence = 90]
              ELSE IF AnyTag(tech, {"flutter"}) \/ Contains("dart", language)
                THEN [NoAnalysis EXCEPT
                        !.is_executable = TRUE, !.detected_runtime = "flutter",
                        !.setup_commands = <<"flutter pub get">>,
                        !.test_command = "flutter test",
                        !.build_command = "flutter build web",
                        !.confidence = 80]
              ELSE IF Contains("java", language) \/ AnyTag(tech, {"spring", "maven", "gradle"})
                THEN [NoAnalysis EXCEPT
                        !.is_executable = TRUE, !.detected_runtime = "java",
                        !.setup_commands = <<"mvn clean install || gradle build">>,
                        !.test_command = "mvn test || gradle test",
                        !.build_command = "mvn package || gradle build",
                        !.confidence = 75]
              ELSE IF Contains("go", language) \/ Contains("golang", language)
                THEN [NoAnalysis EXCEPT
                        !.is_executable = TRUE, !.detected_runtime = "go",
                        !.setup_commands = <<"go mod download">>,
                        !.test_command = "go test ./...",
                        !.build_command = "go build",
                        !.confidence = 85]
              ELSE IF Contains("rust", language)
                THEN [NoAnalysis EXCEPT
                        !.is_executable = TRUE, !.detected_runtime = "rust",
                        !.setup_commands = <<"cargo fetch">>,
                        !.test_command = "cargo test",
                        !.build_command = "cargo build --release",
                        !.confidence = 85]
              ELSE NoAnalysis
        IN  IF AnyTag(tech, {"docker", "kubernetes", "containerized"})
              THEN [base EXCEPT
                      !.requires_docker = TRUE,
                      !.setup_commands =
                          <<"docker-compose up -d || docker build -t app .">> \o @]
              ELSE base

\* ---------------------------------------------------------- SandboxRuntime
\* Every container runs "/bin/sleep 3600": when that ends the container
\* exits and the engine kills whatever is still running in it.
KeepAlive == 3600

\* What the container engine does with one call: it may raise (fault), and
\* an exec call otherwise ends with an exit code after a measured duration.
Durations == {0, 130}

EngineFault == [fault |-> TRUE, exit_code |-> 0, duration |-> 0]

\* A command that is still running when the container exits.
KilledRun == [fault |-> FALSE, exit_code |-> 137, duration |-> KeepAlive]

EngineRuns ==
    [fault : {FALSE}, exit_code : {0, 1}, duration : Durations]
    \cup {EngineFault, KilledRun}

\* Mutant of CommandRuns: the container never exits, and exec_run does not
\* return as long as the program runs.
CommandRuns_Forever(code) == IF code.halts THEN EngineRuns ELSE {}

\* What exec_run can do with the snippet's command: a program that does not
\* end by itself runs until the container exits, unless the engine faults.
CommandRuns(code) == IF code.halts THEN EngineRuns ELSE {EngineFault, KilledRun}

\* The seconds a call to exec_run takes.
TimeTaken(run) == IF run.fault THEN 0 ELSE run.duration

\* The places of create_sandbox at which the engine can raise.
CreateFaults == {"images.get", "images.pull", "containers.create", "container.start"}

EngineOk == "ok"

\* An entry keeps, for created_at, the age (now - created_at) that
\* cleanup_expired_sandboxes computes from it.
SandboxEntry(language, memory_limit, cpu_limit, timeout, network_enabled) ==
    [language |-> language, age |-> 0, timeout |-> timeout,
     memory_limit |-> memory_limit, cpu_limit |-> cpu_limit,
     network_enabled |-> network_enabled, status |-> "running"]

\* Mutant of create_sandbox: the sandbox is registered before the container
\* is started.
create_sandbox_RegisterBeforeStart(available, registry, fresh_id, engine, language, memory_limit, cpu_limit, timeout, network_enabled) ==
    IF ~available
      THEN [registry |-> registry, ret |-> NoSandbox]
    ELSE IF engine \in CreateFaults \ {"container.start"}
      THEN [registry |-> registry, ret |-> NoSandbox]
    ELSE [registry |->
              registry @@ (fresh_id :> SandboxEntry(language, memory_limit,
                                                   cpu_limit, timeout,
                                                   network_enabled)),
          ret |-> IF engine = EngineOk THEN fresh_id ELSE NoSandbox]

\* Mutant of create_sandbox: the id returned is not the id registered.
create_sandbox_OtherId(available, registry, fresh_id, engine, language, memory_limit, cpu_limit, timeout, network_enabled) ==
    IF ~available
      THEN [registry |-> registry, ret |-> NoSandbox]
    ELSE IF engine \in CreateFaults
      THEN [registry |-> registry, ret |-> NoSandbox]
    ELSE [registry |->
              registry @@ (fresh_id :> SandboxEntry(language, memory_limit,
                                                   cpu_limit, timeout,
                                                   network_enabled)),
          ret |-> fresh_id + 1]

\* SandboxManager.create_sandbox: the new registry and the returned id.
\* engine is the place at which the engine raises, or EngineOk.
\* cpu_limit is kept in tenths of a core.
create_sandbox(available, registry, fresh_id, engine, language, memory_limit, cpu_limit, timeout, network_enabled) ==
    IF ~available
      THEN [registry |-> registry, ret |-> NoSandbox]
    ELSE IF engine \in CreateFaults
      THEN [registry |-> registry, ret |-> NoSandbox]
    ELSE [registry |->
              registry @@ (fresh_id :> SandboxEntry(language, memory_limit,
                                                   cpu_limit, timeout,
                                                   network_enabled)),
          ret |-> fresh_id]

\* Mutant of execute_in_sandbox: the duration is not compared with the
\* timeout.
execute_in_sandbox_NoTimeoutCheck(registry, sandbox, run, timeout) ==
    IF sandbox \notin DOMAIN registry
      THEN [success |-> FALSE, error |-> "Sandbox not found", exit_code |-> -1,
            execution_time |-> 0]
    ELSE IF run.fault
      THEN [success |-> FALSE, error |-> "engine fault", exit_code |-> -1,
            execution_time |-> 0]
    ELSE [success |-> run.exit_code = 0, error |-> NoneVal,
          exit_code |-> run.exit_code, execution_time |-> run.duration]

\* SandboxManager.execute_in_sandbox: the result dictionary.
execute_in_sandbox(registry, sandbox, run, timeout) ==
    IF sandbox \notin DOMAIN registry
      THEN [success |-> FALSE, error |-> "Sandbox not found", exit_code |-> -1,
            execution_time |-> 0]
    ELSE IF run.fault
      THEN [success |-> FALSE, error |-> "engine fault", exit_code |-> -1,
            execution_time |-> 0]
    ELSE IF run.duration > timeout
      THEN [success |-> FALSE, error |-> "Execution timeout", exit_code |-> -1,
            execution_time |-> run.duration]
    ELSE [success |-> run.exit_code = 0, error |-> NoneVal,
          exit_code |-> run.exit_code, execution_time |-> run.duration]

NoRun ==
    [success |-> FALSE, error |-> NoneVal, exit_code |-> 0, execution_time |-> 0]

\* SandboxManager.upload_file_to_sandbox: the returned flag.
\* Mutant of upload_file_to_sandbox: the registry is not looked at.
upload_file_to_sandbox_NoLookup(registry, sandbox, engine_ok) == engine_ok

upload_file_to_sandbox(registry, sandbox, engine_ok) ==
    IF sandbox \notin DOMAIN registry THEN FALSE ELSE engine_ok

\* Mutant of get_sandbox_stats: the registry is not looked at.
get_sandbox_stats_NoLookup(registry, sandbox, engine_ok) ==
    IF ~engine_ok THEN NoneVal ELSE "snapshot"

\* SandboxManager.get_sandbox_stats: a snapshot or None.
\* SandboxManager.download_file_from_sandbox: the bytes of the file, None for
\* an unknown sandbox and when anything raises.
download_file_from_sandbox(registry, sandbox, engine_ok) ==
    IF sandbox \notin DOMAIN registry THEN NoneVal
    ELSE IF ~engine_ok THEN NoneVal
    ELSE "bytes"

get_sandbox_stats(registry, sandbox, engine_ok) ==
    IF sandbox \notin DOMAIN registry THEN NoneVal
    ELSE IF ~engine_ok THEN NoneVal
    ELSE "snapshot"

\* SandboxManager.stop_sandbox: the new registry and the returned flag.
stop_sandbox(registry, sandbox, engine_ok) ==
    IF sandbox \notin DOMAIN registry
      THEN [registry |-> registry, ret |-> FALSE]
    ELSE IF ~engine_ok
      THEN [registry |-> registry, ret |-> FALSE]
    ELSE [registry |-> [s \in DOMAIN registry \ {sandbox} |-> registry[s]],
          ret |-> TRUE]

\* age.total_seconds() > sandbox["timeout"]
Expired(entry) == entry.age > entry.timeout

\* SandboxManager.cleanup_expired_sandboxes: the ids found expired, the ids
\* on which stop_sandbox returned True, the new registry and the count.
\* engine_ok[s] tells whether the engine stops and removes the container of s.
cleanup_expired_sandboxes(registry, engine_ok) ==
    LET expired_ids == { s \in DOMAIN registry : Expired(registry[s]) }
        stopped == { s \in expired_ids :
                        stop_sandbox(registry, s, engine_ok[s]).ret }
    IN  [expired_ids |-> expired_ids,
         stopped |-> stopped,
         registry |-> [s \in DOMAIN registry \ stopped |-> registry[s]],
         ret |-> Cardinality(stopped)]

\* The clock moves on by d seconds.  A time span is only ever compared with
\* a timeout, so it is followed up to the first second past that timeout.
Later(span, d, timeout) ==
    IF span + d > timeout THEN timeout + 1 ELSE span + d

Aged(registry, d) ==
    [s \in DOMAIN registry |->
        [registry[s] EXCEPT !.age = Later(@, d, registry[s].timeout)]]

\* ------------------------------------------------------------------ state
VARIABLES
    docker_available,    \* SandboxManager.docker_available
    active_sandboxes,    \* SandboxManager.active_sandboxes: id -> entry
    next_sandbox,        \* the next fresh uuid of create_sandbox
    execution_history,   \* ExecutionController.execution_history: id -> result
    pc,                  \* where execution e stands in its handler
    req,                 \* the request of execution e
    verdict,             \* the security verdict computed for e: none/safe/unsafe
    analysis,            \* execute_repository's local `analysis`
    sandbox_id,          \* the handler's local `sandbox_id`
    execution_log,       \* execute_repository's local `execution_log`
    setup_i,             \* index of the setup loop
    run_result,          \* execute_code_snippet's local `result`
    stats,               \* execute_repository's local `stats`
    result,              \* what the handler returned
    outcome,             \* how the handler ended
    calls,               \* the runtime calls made for e, in order
    elapsed,             \* datetime.now() - start_time of execute_repository
    stop_calls,          \* what the stop_sandbox calls on an id have returned
    cleaned,             \* the count POST /sandbox/cleanup is responding with
    start_time,          \* execute_repository's local `start_time`
    clock,               \* the reading the next datetime.now() gives
    response             \* what a read endpoint is responding with

vars ==
    <<docker_available, active_sandboxes, next_sandbox, execution_history, pc,
      req, verdict, analysis, sandbox_id, execution_log, setup_i, run_result,
      stats, result, outcome, calls, elapsed, stop_calls, cleaned, start_time,
      clock, response>>

Apps == {"main_v2", "main_integration"}

NoUrl == [host |-> << >>, rest |-> << >>]

NoCode ==
    [deny |-> {}, big |-> FALSE, loop |-> FALSE, encodable |-> TRUE,
     halts |-> TRUE]

NoMetadata == [language |-> "", tech_stack |-> << >>]

NoRequest ==
    [kind |-> "none", entry |-> "none", code |-> NoCode, language |-> "",
     repo_url |-> NoUrl, repo_data |-> NoMetadata, timeout |-> 0]

\* timestamp is the text of the "timestamp" field, empty when a result has
\* none (the default of x.get("timestamp", "")).
NoResult ==
    [status |-> "pending", error |-> NoneVal, sandbox_id |-> NoSandbox,
     logs |-> << >>, resource_stats |-> NoneVal, exit_code |-> 0,
     timestamp |-> << >>]

\* -------------------------------------------------------- execution history
\* The n-th reading of the clock: <<second, microsecond>>.  The handlers run
\* one after the other and each reads the clock after calls to the engine,
\* so every reading is later than the one before.
Instant(n) == <<n \div 2, n % 2>>

\* datetime.isoformat(): a text whose fields have a fixed width; the
\* microseconds are left out when they are zero.
isoformat(t) == IF t[2] = 0 THEN <<t[1]>> ELSE <<t[1], t[2]>>

\* a < b for two texts (str.__lt__): the first field that differs decides,
\* and a text is greater than each of its proper prefixes.
RECURSIVE TextLess(_, _)
TextLess(a, b) ==
    IF a = << >> THEN b # << >>
    ELSE IF b = << >> THEN FALSE
    ELSE IF Head(a) # Head(b) THEN Head(a) < Head(b)
    ELSE TextLess(Tail(a), Tail(b))

\* execution_history is a dict: the sequence of its items in insertion
\* order.  d[key] = value replaces the value of a key that is there and
\* appends a new item otherwise.
Stored(history, execution_id, execution_result) ==
    IF \E i \in 1..Len(history) : history[i].execution_id = execution_id
      THEN [i \in 1..Len(history) |->
               IF history[i].execution_id = execution_id
                 THEN [history[i] EXCEPT !.result = execution_result]
                 ELSE history[i]]
      ELSE Append(history,
                  [execution_id |-> execution_id, result |-> execution_result])

\* dict.values()
Values(history) == [i \in 1..Len(history) |-> history[i].result]

\* One step of a stable sort in descending order of timestamp: x goes behind
\* every element whose timestamp is not smaller than its own.
RECURSIVE InsertByTimestamp(_, _)
InsertByTimestamp(x, sorted) ==
    IF sorted = << >> THEN <<x>>
    ELSE IF TextLess(Head(sorted).timestamp, x.timestamp) THEN <<x>> \o sorted
    ELSE <<Head(sorted)>> \o InsertByTimestamp(x, Tail(sorted))

\* sorted(values, key=lambda x: x.get("timestamp", ""), reverse=True)
RECURSIVE SortedByTimestamp(_)
SortedByTimestamp(values) ==
    IF values = << >> THEN << >>
    ELSE InsertByTimestamp(values[Len(values)],
                           SortedByTimestamp(SubSeq(values, 1, Len(values) - 1)))

\* seq[:limit]
UpTo(seq, limit) ==
    LET n == IF limit < 0
               THEN (IF Len(seq) + limit < 0 THEN 0 ELSE Len(seq) + limit)
               ELSE (IF limit < Len(seq) THEN limit ELSE Len(seq))
    IN  SubSeq(seq, 1, n)

\* ExecutionController.get_execution_history
get_execution_history(history, limit) ==
    UpTo(SortedByTimestamp(Values(history)), limit)

\* What dict.get returns for a key that is not there (None).
NotFound == [NoResult EXCEPT !.status = "not_found"]

\* ExecutionController.get_execution_result
get_execution_result(history, execution_id) ==
    IF \E i \in 1..Len(history) : history[i].execution_id = execution_id
      THEN LET i == CHOOSE k \in 1..Len(history) :
                        history[k].execution_id = execution_id
           IN  history[i].result
      ELSE NotFound

\* A read endpoint's response: the function it called, the argument, the
\* HTTP status and the returned value.
Reply(op, arg, status, ret) ==
    [op |-> op, arg |-> arg, status |-> status, ret |-> ret]

\* No read endpoint is responding.
NoResponse == Reply("none", NoneVal, 0, NoneVal)

\* The state of the manager and of the handler frames after construction.
\* No handler is running.
HandlersIdle ==
    /\ pc = [e \in Execs |-> "idle"]
    /\ req = [e \in Execs |-> NoRequest]
    /\ verdict = [e \in Execs |-> "none"]
    /\ analysis = [e \in Execs |-> NoAnalysis]
    /\ sandbox_id = [e \in Execs |-> NoSandbox]
    /\ execution_log = [e \in Execs |-> << >>]
    /\ setup_i = [e \in Execs |-> 0]
    /\ run_result = [e \in Execs |-> NoRun]
    /\ stats = [e \in Execs |-> NoneVal]
    /\ result = [e \in Execs |-> NoResult]
    /\ outcome = [e \in Execs |-> "pending"]
    /\ calls = [e \in Execs |-> << >>]
    /\ elapsed = [e \in Execs |-> 0]
    /\ stop_calls = << >>
    /\ cleaned = NoCount
    /\ start_time = [e \in Execs |-> 0]

Built ==
    /\ docker_available \in BOOLEAN
    /\ active_sandboxes = << >>
    /\ next_sandbox = 1
    /\ HandlersIdle

Constructed == Built /\ response = NoResponse

Init ==
    /\ Constructed
    /\ execution_history = << >>
    /\ clock = 0

runtime_vars ==
    <<docker_available, active_sandboxes, next_sandbox, stop_calls, cleaned,
      clock, response>>

\* The runtime state that no call of a handler touches but create and stop.
fixed_vars == <<docker_available, next_sandbox, cleaned, clock, response>>

local_vars ==
    <<analysis, sandbox_id, execution_log, setup_i, run_result, stats, elapsed,
      start_time>>

\* stop_calls[s] tells what the first stop_sandbox(s) returned, whether
\* stop_sandbox(s) was called again after that, and whether one of these
\* further calls returned True.  ids are the ids stop_sandbox is called with
\* and stopped those for which it returns True.
NoteStops(log, ids, stopped) ==
    [s \in DOMAIN log \cup ids |->
        IF s \notin ids THEN log[s]
        ELSE IF s \in DOMAIN log
          THEN [first |-> log[s].first, again |-> TRUE,
                again_true |-> log[s].again_true \/ s \in stopped]
        ELSE [first |-> s \in stopped, again |-> FALSE, again_true |-> FALSE]]

NoteStop(log, s, ret) == NoteStops(log, {s}, IF ret THEN {s} ELSE {})

\* No handler is running: the event loop is free to take up something else.
LoopIsFree ==
    /\ \A e \in Execs : pc[e] \in {"idle", "closed"}
    /\ cleaned = NoCount
    /\ response.op = "none"

\* The handler of e ends: it returns a value or raises.
Finish(e, how, res) ==
    /\ pc' = [pc EXCEPT ![e] = "done"]
    /\ outcome' = [outcome EXCEPT ![e] = how]
    /\ result' = [result EXCEPT ![e] = res]

\* Requests are numbered in the order in which they arrive.  A handler runs
\* on the event loop until it returns: the coroutines it awaits contain no
\* suspension point of their own (the engine calls block), so the next
\* request is taken up when the previous handler has ended.
Arrives(e) ==
    /\ pc[e] = "idle"
    /\ \A d \in Execs : d < e => pc[d] = "closed"
    /\ cleaned = NoCount
    /\ response.op = "none"

\* ---------------------------------------------------------------- endpoints
\* POST /execute/code
execute_code(e) ==
    /\ Arrives(e)
    /\ \E app \in Apps, code \in CodeInputs, language \in SnippetLanguages,
          timeout \in SnippetTimeouts :
         LET validation == validate_code(code, language, TRUE)
             request == [NoRequest EXCEPT
                           !.kind = "snippet", !.entry = "execute_code",
                           !.code = code, !.language = language,
                           !.timeout = timeout]
         IN  /\ req' = [req EXCEPT ![e] = request]
             /\ IF app = "main_v2" /\ ~docker_available
                  THEN /\ Finish(e, "http_503", NoResult)
                       /\ UNCHANGED verdict
                  ELSE IF ~validation.is_safe
                    THEN /\ verdict' = [verdict EXCEPT ![e] = "unsafe"]
                         /\ Finish(e, "returned",
                                   [NoResult EXCEPT
                                      !.status = "rejected",
                                      !.error = "Code contains potentially dangerous patterns"])
                    ELSE /\ verdict' = [verdict EXCEPT ![e] = "safe"]
                         /\ pc' = [pc EXCEPT ![e] = "create"]
                         /\ UNCHANGED <<outcome, result>>
    /\ UNCHANGED <<runtime_vars, execution_history, local_vars, calls>>

\* POST /execute/repository
execute_repository_endpoint(e) ==
    /\ Arrives(e)
    /\ \E app \in Apps, repo_url \in UrlInputs, repo_data \in MetadataInputs,
          timeout \in RepoTimeouts :
         LET request == [NoRequest EXCEPT
                           !.kind = "repository", !.entry = "execute_repository",
                           !.repo_url = repo_url, !.repo_data = repo_data,
                           !.timeout = timeout]
         IN  /\ req' = [req EXCEPT ![e] = request]
             /\ IF app = "main_v2" /\ ~docker_available
                  THEN /\ Finish(e, "http_503", NoResult)
                       /\ UNCHANGED verdict
                  ELSE IF ~validate_repository_url(repo_url)
                    THEN /\ verdict' = [verdict EXCEPT ![e] = "unsafe"]
                         /\ Finish(e, "http_400", NoResult)
                    ELSE /\ verdict' = [verdict EXCEPT ![e] = "safe"]
                         /\ pc' = [pc EXCEPT ![e] = "analyze"]
                         /\ UNCHANGED <<outcome, result>>
    /\ UNCHANGED <<runtime_vars, execution_history, local_vars, calls>>

\* POST /analyze/health
analyze_health(e) ==
    /\ Arrives(e)
    /\ \E include_execution \in BOOLEAN, html_url \in UrlInputs,
          repo_data \in MetadataInputs :
         LET request == [NoRequest EXCEPT
                           !.kind = "repository", !.entry = "analyze_health",
                           !.repo_url = html_url, !.repo_data = repo_data,
                           !.timeout = 300]
         IN  /\ req' = [req EXCEPT ![e] = request]
             /\ IF include_execution /\ docker_available /\ UrlText(html_url) # << >>
                  THEN /\ pc' = [pc EXCEPT ![e] = "analyze"]
                       /\ UNCHANGED <<outcome, result>>
                  ELSE Finish(e, "skipped", NoResult)
    /\ UNCHANGED <<runtime_vars, execution_history, verdict, local_vars, calls>>

\* ------------------------------------------------------------ orchestrator
\* One runtime call: the operation, the pipeline step it serves (for create:
\* what the engine did), the sandbox id it was given (for create: the id it
\* returned) and whether it reported success.
Call(op, step, sandbox, ok) ==
    [op |-> op, step |-> step, sandbox |-> sandbox, ok |-> ok]

Called(e, op, step, sandbox, ok) ==
    calls' = [calls EXCEPT ![e] = Append(@, Call(op, step, sandbox, ok))]

\* The status values written to the step log and the branch taken after the
\* clone.
CloneStatus(success) == IF success THEN "success" ELSE "failed"

SetupStatus(success) == IF success THEN "success" ELSE "warning"

TestStatus(success) == IF success THEN "success" ELSE "failed"

BuildStatus(success) == IF success THEN "success" ELSE "failed"

\* The results of the early returns.
NotExecutableResult ==
    [NoResult EXCEPT !.status = "failed",
                     !.error = "Repository is not executable"]

\* Mutant of CreateFailedResult: the unavailable engine is reported as an
\* internal error.
CreateFailedResult_AsError ==
    [NoResult EXCEPT !.status = "error",
                     !.error = "Failed to create sandbox (Docker not available)"]

CreateFailedResult ==
    [NoResult EXCEPT !.status = "failed",
                     !.error = "Failed to create sandbox (Docker not available)"]

LogEntry(step, status) == [step |-> step, status |-> status]

SetupName(i) == "setup_" \o ToString(i)

\* Mutant of AfterTest: without a build the statistics are not read.
AfterTest_NoStats(a) == IF a.build_command # NoneVal THEN "build" ELSE "stop"

\* Where execute_repository goes on after the setup loop / after the test.
AfterTest(a) == IF a.build_command # NoneVal THEN "build" ELSE "stats"

\* Mutant of AfterSetup: the test step is skipped.
AfterSetup_SkipTest(a) == AfterTest(a)

AfterSetup(a) == IF a.test_command # NoneVal THEN "test" ELSE AfterTest(a)

AfterClone(a) == IF Len(a.setup_commands) > 0 THEN "setup" ELSE AfterSetup(a)

\* Mutant of CloneBranch: the pipeline goes on after a failed clone.
CloneBranch_Continue(success, a) == AfterClone(a)

\* A failed clone ends the pipeline; a successful one enters the setup loop.
CloneBranch(success, a) == IF ~success THEN "clone_failed" ELSE AfterClone(a)

\* execute_repository, up to the executability check.
Analyze(e) ==
    /\ pc[e] = "analyze"
    /\ LET a == analyze_repository_executability(req[e].repo_data)
       IN  IF a.raised
             THEN /\ Finish(e, "raised", NoResult)
                  /\ UNCHANGED analysis
           ELSE IF ~a.is_executable
             THEN /\ Finish(e, "returned", NotExecutableResult)
                  /\ UNCHANGED analysis
           ELSE /\ analysis' = [analysis EXCEPT ![e] = a]
                /\ pc' = [pc EXCEPT ![e] = "create"]
                /\ UNCHANGED <<outcome, result>>
    /\ UNCHANGED <<runtime_vars, execution_history, req, verdict, sandbox_id,
                   execution_log, setup_i, run_result, stats, calls, elapsed,
                   start_time>>

\* The create_sandbox call of execute_repository and execute_code_snippet,
\* and the return that follows a null id.
Create(e) ==
    /\ pc[e] = "create"
    /\ \E engine \in CreateFaults \cup {EngineOk} :
         LET r == IF req[e].kind = "repository"
                    THEN create_sandbox(docker_available, active_sandboxes,
                                        next_sandbox, engine,
                                        analysis[e].detected_runtime, "1g", 20,
                                        req[e].timeout, TRUE)
                    ELSE create_sandbox(docker_available, active_sandboxes,
                                        next_sandbox, engine,
                                        req[e].language, "256m", 5,
                                        req[e].timeout, FALSE)
         IN  /\ active_sandboxes' = r.registry
             /\ IF r.ret = NoSandbox
                  THEN /\ Finish(e, "returned", CreateFailedResult)
                       /\ UNCHANGED <<sandbox_id, next_sandbox, start_time,
                                      clock>>
                  ELSE /\ sandbox_id' = [sandbox_id EXCEPT ![e] = r.ret]
                       /\ next_sandbox' = next_sandbox + 1
                       /\ IF req[e].kind = "repository"
                            THEN /\ start_time' = [start_time EXCEPT ![e] = clock]
                                 /\ clock' = clock + 1
                            ELSE UNCHANGED <<start_time, clock>>
                       /\ pc' = [pc EXCEPT ![e] =
                                   IF req[e].kind = "repository" THEN "clone"
                                                                 ELSE "upload"]
                       /\ UNCHANGED <<outcome, result>>
             /\ Called(e, "create",
                       IF docker_available THEN engine ELSE "unavailable",
                       r.ret, r.ret # NoSandbox)
    /\ UNCHANGED <<docker_available, execution_history, req, verdict, analysis,
                   execution_log, setup_i, run_result, stats, elapsed,
                   stop_calls, cleaned, response>>

\* The command of a step has taken its time: the sandboxes are that much
\* older and so is the pipeline.
Elapse(e, run) ==
    /\ active_sandboxes' = Aged(active_sandboxes, TimeTaken(run))
    /\ elapsed' = [elapsed EXCEPT ![e] =
                      Later(@, TimeTaken(run), req[e].timeout)]

\* Step 1 of execute_repository: clone.
Clone(e) ==
    /\ pc[e] = "clone"
    /\ \E run \in EngineRuns :
         LET clone_result == execute_in_sandbox(active_sandboxes, sandbox_id[e],
                                                run, 120)
             running == Append(execution_log[e], LogEntry("clone", "running"))
         IN  /\ execution_log' = [execution_log EXCEPT ![e] =
                   Append(running,
                          LogEntry("clone", CloneStatus(clone_result.success)))]
             /\ pc' = [pc EXCEPT ![e] =
                         CloneBranch(clone_result.success, analysis[e])]
             /\ Called(e, "execute", "clone", sandbox_id[e],
                       clone_result.success)
             /\ Elapse(e, run)
    /\ UNCHANGED <<fixed_vars, stop_calls, execution_history, req, verdict,
                   analysis, sandbox_id, setup_i, run_result, stats, result,
                   outcome, start_time>>

\* The early return of execute_repository after a failed clone.
CloneFailed(e) ==
    /\ pc[e] = "clone_failed"
    /\ \E engine_ok \in BOOLEAN :
         LET r == stop_sandbox(active_sandboxes, sandbox_id[e], engine_ok)
         IN  /\ active_sandboxes' = r.registry
             /\ Called(e, "stop", "", sandbox_id[e], r.ret)
             /\ stop_calls' = NoteStop(stop_calls, sandbox_id[e], r.ret)
    /\ Finish(e, "returned",
              [NoResult EXCEPT
                 !.status = "failed", !.error = "Failed to clone repository",
                 !.sandbox_id = sandbox_id[e], !.logs = execution_log[e]])
    /\ UNCHANGED <<fixed_vars, execution_history, req, verdict, local_vars>>

\* Step 2 of execute_repository: one turn of the setup loop.
Setup(e) ==
    /\ pc[e] = "setup"
    /\ \E run \in EngineRuns :
         LET i == setup_i[e]
             setup_result == execute_in_sandbox(active_sandboxes, sandbox_id[e],
                                                run, 180)
             running == Append(execution_log[e], LogEntry(SetupName(i), "running"))
         IN  /\ execution_log' = [execution_log EXCEPT ![e] =
                   Append(running,
                          LogEntry(SetupName(i),
                                   SetupStatus(setup_result.success)))]
             /\ setup_i' = [setup_i EXCEPT ![e] = i + 1]
             /\ pc' = [pc EXCEPT ![e] =
                         IF i + 1 < Len(analysis[e].setup_commands)
                           THEN "setup" ELSE AfterSetup(analysis[e])]
             /\ Called(e, "execute", SetupName(i), sandbox_id[e],
                       setup_result.success)
             /\ Elapse(e, run)
    /\ UNCHANGED <<fixed_vars, stop_calls, execution_history, req, verdict,
                   analysis, sandbox_id, run_result, stats, result, outcome,
                   start_time>>

\* Step 3 of execute_repository: test.
Test(e) ==
    /\ pc[e] = "test"
    /\ \E run \in EngineRuns :
         LET test_result == execute_in_sandbox(active_sandboxes, sandbox_id[e],
                                               run, 120)
             running == Append(execution_log[e], LogEntry("test", "running"))
         IN  /\ execution_log' = [execution_log EXCEPT ![e] =
                   Append(running,
                          LogEntry("test", TestStatus(test_result.success)))]
             /\ Called(e, "execute", "test", sandbox_id[e], test_result.success)
             /\ Elapse(e, run)
    /\ pc' = [pc EXCEPT ![e] = AfterTest(analysis[e])]
    /\ UNCHANGED <<fixed_vars, stop_calls, execution_history, req, verdict,
                   analysis, sandbox_id, setup_i, run_result, stats, result,
                   outcome, start_time>>

\* Step 4 of execute_repository: build.
Build(e) ==
    /\ pc[e] = "build"
    /\ \E run \in EngineRuns :
         LET build_result == execute_in_sandbox(active_sandboxes, sandbox_id[e],
                                                run, 240)
             running == Append(execution_log[e], LogEntry("build", "running"))
         IN  /\ execution_log' = [execution_log EXCEPT ![e] =
                   Append(running,
                          LogEntry("build", BuildStatus(build_result.success)))]
             /\ Called(e, "execute", "build", sandbox_id[e],
                       build_result.success)
             /\ Elapse(e, run)
    /\ pc' = [pc EXCEPT ![e] = "stats"]
    /\ UNCHANGED <<fixed_vars, stop_calls, execution_history, req, verdict,
                   analysis, sandbox_id, setup_i, run_result, stats, result,
                   outcome, start_time>>

\* execute_repository reads the resource statistics.
Stats(e) ==
    /\ pc[e] = "stats"
    /\ \E engine_ok \in BOOLEAN :
         LET r == get_sandbox_stats(active_sandboxes, sandbox_id[e], engine_ok)
         IN  /\ stats' = [stats EXCEPT ![e] = r]
             /\ Called(e, "stats", "", sandbox_id[e], r # NoneVal)
    /\ pc' = [pc EXCEPT ![e] = "stop"]
    /\ UNCHANGED <<runtime_vars, execution_history, req, verdict, analysis,
                   sandbox_id, execution_log, setup_i, run_result, result,
                   outcome, elapsed, start_time>>

\* execute_repository stops its sandbox at the end of the pipeline.
Stop(e) ==
    /\ pc[e] = "stop"
    /\ \E engine_ok \in BOOLEAN :
         LET r == stop_sandbox(active_sandboxes, sandbox_id[e], engine_ok)
         IN  /\ active_sandboxes' = r.registry
             /\ Called(e, "stop", "", sandbox_id[e], r.ret)
             /\ stop_calls' = NoteStop(stop_calls, sandbox_id[e], r.ret)
    /\ pc' = [pc EXCEPT ![e] = "store"]
    /\ UNCHANGED <<fixed_vars, execution_history, req, verdict, local_vars,
                   result, outcome>>

\* Mutant of failed_critical: a failed test counts as critical.
failed_critical_WithTest(log) ==
    \E i \in 1..Len(log) :
        log[i].status = "failed" /\ log[i].step \in {"clone", "test", "build"}

failed_critical(log) ==
    \E i \in 1..Len(log) :
        log[i].status = "failed" /\ log[i].step \in {"clone", "build"}

\* execute_repository decides the status, stores the result and returns it.
Store(e) ==
    /\ pc[e] = "store"
    /\ LET execution_result ==
               [NoResult EXCEPT
                  !.status = IF failed_critical(execution_log[e])
                               THEN "failed" ELSE "success",
                  !.sandbox_id = sandbox_id[e],
                  !.logs = execution_log[e],
                  !.resource_stats = stats[e],
                  !.timestamp = isoformat(Instant(start_time[e]))]
       IN  /\ execution_history' = Stored(execution_history, e,
                                          execution_result)
           /\ Finish(e, "returned", execution_result)
    /\ UNCHANGED <<runtime_vars, req, verdict, local_vars, calls>>

\* execute_code_snippet encodes the code and uploads the file.
Upload(e) ==
    /\ pc[e] = "upload"
    /\ IF ~req[e].code.encodable
         THEN /\ pc' = [pc EXCEPT ![e] = "except"]   \* UnicodeEncodeError
              /\ UNCHANGED calls
         ELSE /\ pc' = [pc EXCEPT ![e] = "run"]
              /\ \E engine_ok \in BOOLEAN :
                   Called(e, "upload", "", sandbox_id[e],
                          upload_file_to_sandbox(active_sandboxes,
                                                 sandbox_id[e], engine_ok))
    /\ UNCHANGED <<runtime_vars, execution_history, req, verdict, local_vars,
                   result, outcome>>

\* execute_code_snippet runs the file.
Run(e) ==
    /\ pc[e] = "run"
    /\ \E run \in CommandRuns(req[e].code) :
         LET r == execute_in_sandbox(active_sandboxes, sandbox_id[e], run,
                                     req[e].timeout)
         IN  /\ run_result' = [run_result EXCEPT ![e] = r]
             /\ Called(e, "execute", "run", sandbox_id[e], r.success)
             /\ active_sandboxes' = Aged(active_sandboxes, TimeTaken(run))
    /\ pc' = [pc EXCEPT ![e] = "cleanup"]
    /\ UNCHANGED <<fixed_vars, stop_calls, execution_history, req, verdict,
                   analysis, sandbox_id, execution_log, setup_i, stats, result,
                   outcome, elapsed, start_time>>

\* execute_code_snippet stops its sandbox and returns.
Cleanup(e) ==
    /\ pc[e] = "cleanup"
    /\ \E engine_ok \in BOOLEAN :
         LET r == stop_sandbox(active_sandboxes, sandbox_id[e], engine_ok)
         IN  /\ active_sandboxes' = r.registry
             /\ Called(e, "stop", "", sandbox_id[e], r.ret)
             /\ stop_calls' = NoteStop(stop_calls, sandbox_id[e], r.ret)
    /\ Finish(e, "returned",
              [NoResult EXCEPT
                 !.status = IF run_result[e].success THEN "success" ELSE "failed",
                 !.sandbox_id = sandbox_id[e],
                 !.exit_code = run_result[e].exit_code])
    /\ UNCHANGED <<fixed_vars, execution_history, req, verdict, local_vars>>

\* Mutant of Except: the handler returns without stopping the sandbox.
Except_NoStop(e) ==
    /\ pc[e] = "except"
    /\ Finish(e, "returned",
              [NoResult EXCEPT
                 !.status = "error", !.error = "exception",
                 !.sandbox_id = sandbox_id[e], !.logs = execution_log[e]])
    /\ UNCHANGED <<runtime_vars, execution_history, req, verdict, local_vars,
                   calls>>

\* The except clause: stop the sandbox and return an error result.
Except(e) ==
    /\ pc[e] = "except"
    /\ \E engine_ok \in BOOLEAN :
         LET r == stop_sandbox(active_sandboxes, sandbox_id[e], engine_ok)
         IN  /\ active_sandboxes' = r.registry
             /\ Called(e, "stop", "", sandbox_id[e], r.ret)
             /\ stop_calls' = NoteStop(stop_calls, sandbox_id[e], r.ret)
    /\ Finish(e, "returned",
              [NoResult EXCEPT
                 !.status = "error", !.error = "exception",
                 !.sandbox_id = sandbox_id[e], !.logs = execution_log[e]])
    /\ UNCHANGED <<fixed_vars, execution_history, req, verdict, local_vars>>

\* The response has been sent: the handler's frame is gone.  What remains of
\* the execution is what it left in the registry and in the history.  After
\* the response of POST /execute/repository the background task
\* cleanup_expired_sandboxes runs.
Respond(e) ==
    /\ pc[e] = "done"
    /\ IF req[e].entry = "execute_repository" /\ outcome[e] = "returned"
         THEN \E engine_ok \in [DOMAIN active_sandboxes -> BOOLEAN] :
                LET r == cleanup_expired_sandboxes(active_sandboxes, engine_ok)
                IN  /\ active_sandboxes' = r.registry
                    /\ stop_calls' = NoteStops(stop_calls, r.expired_ids,
                                                r.stopped)
         ELSE UNCHANGED <<active_sandboxes, stop_calls>>
    /\ pc' = [pc EXCEPT ![e] = "closed"]
    /\ req' = [req EXCEPT ![e] = NoRequest]
    /\ verdict' = [verdict EXCEPT ![e] = "none"]
    /\ analysis' = [analysis EXCEPT ![e] = NoAnalysis]
    /\ sandbox_id' = [sandbox_id EXCEPT ![e] = NoSandbox]
    /\ execution_log' = [execution_log EXCEPT ![e] = << >>]
    /\ setup_i' = [setup_i EXCEPT ![e] = 0]
    /\ run_result' = [run_result EXCEPT ![e] = NoRun]
    /\ stats' = [stats EXCEPT ![e] = NoneVal]
    /\ result' = [result EXCEPT ![e] = NoResult]
    /\ outcome' = [outcome EXCEPT ![e] = "pending"]
    /\ calls' = [calls EXCEPT ![e] = << >>]
    /\ elapsed' = [elapsed EXCEPT ![e] = 0]
    /\ start_time' = [start_time EXCEPT ![e] = 0]
    /\ UNCHANGED <<fixed_vars, execution_history>>

\* POST /sandbox/cleanup
cleanup_sandboxes ==
    /\ LoopIsFree
    /\ \E engine_ok \in [DOMAIN active_sandboxes -> BOOLEAN] :
         LET r == cleanup_expired_sandboxes(active_sandboxes, engine_ok)
         IN  /\ active_sandboxes' = r.registry
             /\ stop_calls' = NoteStops(stop_calls, r.expired_ids, r.stopped)
             /\ cleaned' = r.ret
    /\ UNCHANGED <<docker_available, next_sandbox, execution_history, pc, req,
                   verdict, local_vars, result, outcome, calls, clock, response>>

\* The response of POST /sandbox/cleanup has been sent.
cleanup_responded ==
    /\ cleaned # NoCount
    /\ cleaned' = NoCount
    /\ UNCHANGED <<docker_available, active_sandboxes, next_sandbox, stop_calls,
                   execution_history, pc, req, verdict, local_vars, result,
                   outcome, calls, clock, response>>

\* The seconds that go by while the server waits for the next request.
IdleTimes == {KeepAlive}

TimePasses ==
    /\ LoopIsFree
    /\ \E d \in IdleTimes : active_sandboxes' = Aged(active_sandboxes, d)
    /\ UNCHANGED <<fixed_vars, stop_calls, execution_history, pc, req, verdict,
                   local_vars, result, outcome, calls>>

Next ==
    \/ \E e \in Execs :
        \/ execute_code(e)
        \/ execute_repository_endpoint(e)
        \/ analyze_health(e)
        \/ Analyze(e)
        \/ Create(e)
        \/ Clone(e)
        \/ CloneFailed(e)
        \/ Setup(e)
        \/ Test(e)
        \/ Build(e)
        \/ Stats(e)
        \/ Stop(e)
        \/ Store(e)
        \/ Upload(e)
        \/ Run(e)
        \/ Cleanup(e)
        \/ Except(e)
        \/ Respond(e)
    \/ cleanup_sandboxes
    \/ cleanup_responded
    \/ TimePasses

Spec == Init /\ [][Next]_vars

\* The server when only snippets are sent to it.  The event loop runs a
\* handler that has started up to its return: none of its steps waits for
\* anything but the engine call it makes.
SnippetStep(e) ==
    \/ Create(e)
    \/ Upload(e)
    \/ Run(e)
    \/ Cleanup(e)
    \/ Except(e)

SnippetNext ==
    \/ \E e \in Execs :
        \/ execute_code(e)
        \/ SnippetStep(e)
        \/ Respond(e)
    \/ cleanup_sandboxes
    \/ cleanup_responded
    \/ TimePasses

SnippetSpec ==
    Init /\ [][SnippetNext]_vars /\ \A e \in Execs : WF_vars(SnippetStep(e))

\* ------------------------------------------------------------ read endpoints
\* GET /sandbox/stats/{sandbox_id}, for the ids given out so far and one that
\* no sandbox has.
get_sandbox_stats_endpoint ==
    /\ LoopIsFree
    /\ \E s \in 1..next_sandbox, engine_ok \in BOOLEAN :
         LET stats_read == get_sandbox_stats(active_sandboxes, s, engine_ok)
         IN  response' = Reply("get_sandbox_stats", s,
                               IF stats_read = NoneVal THEN 404 ELSE 200,
                               stats_read)
    /\ UNCHANGED <<docker_available, active_sandboxes, next_sandbox, stop_calls,
                   cleaned, clock, execution_history, pc, req, verdict,
                   local_vars, result, outcome, calls>>

\* The limits a GET /execute/history is sent with; 10 is the default.
HistoryLimits == {-1, 0, 1, 2, 10}

\* GET /execute/history: main_v2 declares limit as Query(10, ge=1, le=100),
\* main_integration as a plain int.
get_execution_history_endpoint ==
    /\ LoopIsFree
    /\ \E app \in Apps, limit \in HistoryLimits :
         response' =
             IF app = "main_v2" /\ ~(1 <= limit /\ limit <= 100)
               THEN Reply("get_execution_history", limit, 422, << >>)
               ELSE Reply("get_execution_history", limit, 200,
                          get_execution_history(execution_history, limit))
    /\ UNCHANGED <<docker_available, active_sandboxes, next_sandbox, stop_calls,
                   cleaned, clock, execution_history, pc, req, verdict,
                   local_vars, result, outcome, calls>>

\* The execution ids of the pipelines that ran to their end before the
\* executions followed here: 1 - n .. 0.
MaxPast == 2

\* The ids a GET /execute/status is sent with.
KnownExecutions == ((0 - MaxPast)..0) \cup Execs

\* GET /execute/status/{execution_id}
get_execution_status ==
    /\ LoopIsFree
    /\ \E execution_id \in KnownExecutions :
         LET found == get_execution_result(execution_history, execution_id)
         IN  response' = Reply("get_execution_result", execution_id,
                               IF found = NotFound THEN 404 ELSE 200, found)
    /\ UNCHANGED <<docker_available, active_sandboxes, next_sandbox, stop_calls,
                   cleaned, clock, execution_history, pc, req, verdict,
                   local_vars, result, outcome, calls>>

\* The response of a read endpoint has been sent.
responded ==
    /\ response.op # "none"
    /\ response' = NoResponse
    /\ UNCHANGED <<docker_available, active_sandboxes, next_sandbox, stop_calls,
                   cleaned, clock, execution_history, pc, req, verdict,
                   local_vars, result, outcome, calls>>

\* The log of a pipeline whose steps all succeeded.
DoneLog(steps) ==
    [i \in 1..(2 * Len(steps)) |->
        LogEntry(steps[(i + 1) \div 2],
                 IF i % 2 = 1 THEN "running" ELSE "success")]

\* The result a pipeline stored that started at the given reading of the
\* clock.
PastResult(id, reading) ==
    [NoResult EXCEPT
       !.status = "success",
       !.sandbox_id = id,
       !.logs = DoneLog(<<"clone", "setup_0", "setup_1", "test">>),
       !.resource_stats = "snapshot",
       !.timestamp = isoformat(Instant(reading))]

\* The history n such pipelines have left, one after the other.
PastHistory(n) ==
    [k \in 1..n |->
        [execution_id |-> k - n, result |-> PastResult(k - n - 1, k - 1)]]

\* The server some time after its start: up to MaxPast pipelines have run to
\* their end, and the sandbox of each has been stopped.
QueryInit ==
    /\ Constructed
    /\ \E n \in 0..MaxPast :
         /\ execution_history = PastHistory(n)
         /\ clock = n

\* The server when repositories are sent to it and its read endpoints are
\* queried.
QueryNext ==
    \/ \E e \in Execs :
        \/ execute_repository_endpoint(e)
        \/ Analyze(e)
        \/ Create(e)
        \/ Clone(e)
        \/ CloneFailed(e)
        \/ Setup(e)
        \/ Test(e)
        \/ Build(e)
        \/ Stats(e)
        \/ Stop(e)
        \/ Store(e)
        \/ Respond(e)
    \/ get_sandbox_stats_endpoint
    \/ get_execution_history_endpoint
    \/ get_execution_status
    \/ responded

QuerySpec == QueryInit /\ [][QueryNext]_vars

\* ------------------------------------------------- the two pure functions
\* validate_code and analyze_repository_executability called by themselves,
\* on every input of a bounded set: the call is drawn at the start, one step
\* applies the function and keeps what it returned in response.
AnyCode ==
    { [deny |-> d, big |-> b, loop |-> l, encodable |-> c, halts |-> TRUE] :
        d \in {{}, {"python"}, {"python", "javascript"}},
        b \in BOOLEAN, l \in BOOLEAN, c \in BOOLEAN }
    \cup {AbsentCode}

AnyLanguage == {"Python", "javascript", "ruby", NoneVal}

AnyMetadata ==
    { [language |-> l, tech_stack |-> t] :
        l \in {NoneVal, "", "Python", "JavaScript", "TypeScript", "Dart",
               "Java", "Go", "Rust", "Ruby"},
        t \in {<< >>, <<"React">>, <<"Flutter">>, <<"Spring">>, <<"Docker">>,
               <<"Docker", "React">>, <<"Python">>} }

\* URLs as UrlInputs has them, and hosts that only contain an allow-listed
\* name ("github.com.evil.example").
AnyUrl ==
    UrlInputs
    \cup { [host |-> <<d>>, rest |-> <<"x/y">>] : d \in safe_domains }
    \cup { [host |-> <<"github.com", ".evil.example">>, rest |-> <<"x/y">>],
           [host |-> <<"evil.example">>, rest |-> << >>] }

Pending == 0
Applied == 1

CallInit ==
    /\ Built
    /\ execution_history = << >>
    /\ clock = 0
    /\ \/ \E code \in AnyCode, language \in AnyLanguage, strict_mode \in BOOLEAN :
             response = Reply("validate_code",
                              [code |-> code, language |-> language,
                               strict_mode |-> strict_mode],
                              Pending, NoneVal)
       \/ \E repo_data \in AnyMetadata :
             response = Reply("analyze_repository_executability", repo_data,
                              Pending, NoneVal)
       \/ \E repo_url \in AnyUrl :
             response = Reply("validate_repository_url", repo_url, Pending,
                              NoneVal)

validate_code_call ==
    /\ response.op = "validate_code"
    /\ response.status = Pending
    /\ response' = [response EXCEPT
                      !.status = Applied,
                      !.ret = validate_code(response.arg.code,
                                            response.arg.language,
                                            response.arg.strict_mode)]
    /\ UNCHANGED <<docker_available, active_sandboxes, next_sandbox, stop_calls,
                   cleaned, clock, execution_history, pc, req, verdict,
                   local_vars, result, outcome, calls>>

analyze_repository_executability_call ==
    /\ response.op = "analyze_repository_executability"
    /\ response.status = Pending
    /\ response' = [response EXCEPT
                      !.status = Applied,
                      !.ret = analyze_repository_executability(response.arg)]
    /\ UNCHANGED <<docker_available, active_sandboxes, next_sandbox, stop_calls,
                   cleaned, clock, execution_history, pc, req, verdict,
                   local_vars, result, outcome, calls>>

validate_repository_url_call ==
    /\ response.op = "validate_repository_url"
    /\ response.status = Pending
    /\ response' = [response EXCEPT
                      !.status = Applied,
                      !.ret = validate_repository_url(response.arg)]
    /\ UNCHANGED <<docker_available, active_sandboxes, next_sandbox, stop_calls,
                   cleaned, clock, execution_history, pc, req, verdict,
                   local_vars, result, outcome, calls>>

CallNext ==
    \/ validate_code_call
    \/ analyze_repository_executability_call
    \/ validate_repository_url_call

CallSpec == CallInit /\ [][CallNext]_vars

\* --------------------------------------- the operations of SandboxManager
\* One operation called with a sandbox id, registered or not, on a registry
\* that creates and stops have left behind; the engine's part of the call is
\* drawn with it.
MaxSandboxes == 2

Registries ==
    { [s \in ids |-> SandboxEntry("python", "256m", 5, 30, FALSE)] :
        ids \in SUBSET (1..MaxSandboxes) }

EngineAnswers == {"upload_file_to_sandbox", "download_file_from_sandbox",
                  "get_sandbox_stats", "stop_sandbox"}

ManagerInit ==
    /\ HandlersIdle
    /\ execution_history = << >>
    /\ clock = 0
    /\ active_sandboxes \in Registries
    /\ next_sandbox = MaxSandboxes + 1
    /\ docker_available \in BOOLEAN
    /\ active_sandboxes # << >> => docker_available
    /\ \E sandbox \in 1..(MaxSandboxes + 1) :
         \/ \E run \in EngineRuns :
              response = Reply("execute_in_sandbox",
                               [sandbox |-> sandbox, run |-> run],
                               Pending, NoneVal)
         \/ \E op \in EngineAnswers, engine_ok \in BOOLEAN :
              response = Reply(op, [sandbox |-> sandbox, engine_ok |-> engine_ok],
                               Pending, NoneVal)

\* The call returns: what it returned is kept in response.
Returns(op, ret) ==
    /\ response.op = op
    /\ response.status = Pending
    /\ response' = [response EXCEPT !.status = Applied, !.ret = ret]
    /\ UNCHANGED <<docker_available, next_sandbox, stop_calls, cleaned, clock,
                   execution_history, pc, req, verdict, local_vars, result,
                   outcome, calls>>

execute_in_sandbox_call ==
    /\ Returns("execute_in_sandbox",
               execute_in_sandbox(active_sandboxes, response.arg.sandbox,
                                  response.arg.run, 30))
    /\ UNCHANGED active_sandboxes

upload_file_to_sandbox_call ==
    /\ Returns("upload_file_to_sandbox",
               upload_file_to_sandbox(active_sandboxes, response.arg.sandbox,
                                      response.arg.engine_ok))
    /\ UNCHANGED active_sandboxes

download_file_from_sandbox_call ==
    /\ Returns("download_file_from_sandbox",
               download_file_from_sandbox(active_sandboxes,
                                          response.arg.sandbox,
                                          response.arg.engine_ok))
    /\ UNCHANGED active_sandboxes

get_sandbox_stats_call ==
    /\ Returns("get_sandbox_stats",
               get_sandbox_stats(active_sandboxes, response.arg.sandbox,
                                 response.arg.engine_ok))
    /\ UNCHANGED active_sandboxes

stop_sandbox_call ==
    LET r == stop_sandbox(active_sandboxes, response.arg.sandbox,
                          response.arg.engine_ok)
    IN  /\ Returns("stop_sandbox", r.ret)
        /\ active_sandboxes' = r.registry

ManagerNext ==
    \/ execute_in_sandbox_call
    \/ upload_file_to_sandbox_call
    \/ download_file_from_sandbox_call
    \/ get_sandbox_stats_call
    \/ stop_sandbox_call

ManagerSpec == ManagerInit /\ [][ManagerNext]_vars

\* ------------------------------------------------------------------ claims
Ops(e, op) == { i \in 1..Len(calls[e]) : calls[e][i].op = op }

Provisioned(e) == sandbox_id[e] # NoSandbox

Returned(e) == pc[e] = "done" /\ outcome[e] = "returned"

IsRepository(e) == req[e].kind = "repository"

IsExecute(c) == c.op = "execute"

IsFinal(l) == l.status # "running"

StepsOf(seq) == [i \in 1..Len(seq) |-> seq[i].step]

\* The step commands issued to the sandbox of e, in the order of the calls.
IssuedSteps(e) == StepsOf(SelectSeq(calls[e], IsExecute))

IsPrefix(s, t) == Len(s) <= Len(t) /\ SubSeq(t, 1, Len(s)) = s

Critical == {"clone", "build"}

\* The i-th runtime call of e is a critical step that did not succeed.
CriticalFailureAt(e, i) ==
    /\ calls[e][i].op = "execute"
    /\ calls[e][i].step \in Critical
    /\ ~calls[e][i].ok

StopCalls(e) ==
    { i \in Ops(e, "stop") : calls[e][i].sandbox = sandbox_id[e] }

\* C1: no create call is made for a request unless a security verdict was
\* computed for it beforehand and found safe.
C1_CreateOnlyAfterSafeVerdict ==
    \A e \in Execs : Ops(e, "create") # {} => verdict[e] = "safe"

\* C2: an execution that provisioned a sandbox never calls stop twice, and
\* when it has returned it has called stop on its own sandbox exactly once,
\* whatever its terminal status.
C2_StopExactlyOnce ==
    \A e \in Execs :
        /\ Cardinality(Ops(e, "stop")) <= 1
        /\ Ops(e, "stop") = StopCalls(e)
        /\ (pc[e] = "done" /\ Provisioned(e)) => Cardinality(StopCalls(e)) = 1

\* An execution ended in status error after provisioning a sandbox.
C2_Witness ==
    \E e \in Execs :
        /\ pc[e] = "done"
        /\ Provisioned(e)
        /\ result[e].status = "error"
        /\ Cardinality(StopCalls(e)) = 1

\* C3: when an execution has returned, the sandbox it provisioned is no
\* longer in the registry.
C3_SandboxGoneAtReturn ==
    \A e \in Execs :
        (pc[e] = "done" /\ Provisioned(e))
            => sandbox_id[e] \notin DOMAIN active_sandboxes

\* C4: the orchestrator always returns a result with one of the four
\* terminal statuses; no exception escapes it.
C4_AlwaysTypedResult ==
    \A e \in Execs :
        (pc[e] = "done" /\ outcome[e] \notin {"http_503", "http_400", "skipped"})
            => /\ outcome[e] = "returned"
               /\ result[e].status \in {"success", "failed", "error", "rejected"}

\* C5: once a critical step (clone, build) has failed no further step command
\* is issued, and the log holds the final entries of exactly the issued
\* steps, in issuance order, ending with the failed one.
C5_NoStepAfterCriticalFailure ==
    \A e \in Execs :
        \A i \in 1..Len(calls[e]) :
            CriticalFailureAt(e, i) =>
                LET final == SelectSeq(execution_log[e], IsFinal)
                IN  /\ \A j \in Ops(e, "execute") : j <= i
                    /\ StepsOf(final) = IssuedSteps(e)
                    /\ final[Len(final)] =
                           LogEntry(calls[e][i].step, "failed")
                    /\ pc[e] = "done" => result[e].logs = execution_log[e]

\* A pipeline returned after its clone step failed.
C5_Witness ==
    \E e \in Execs :
        /\ pc[e] = "done"
        /\ \E i \in 1..Len(calls[e]) :
               CriticalFailureAt(e, i) /\ calls[e][i].step = "clone"

\* C6: a repository execution that provisioned a sandbox and returned without
\* an unexpected fault has status failed exactly when a critical step failed
\* and status success otherwise.
C6_FailedIffCriticalFailed ==
    \A e \in Execs :
        (Returned(e) /\ IsRepository(e) /\ Provisioned(e)
         /\ result[e].status # "error")
            => LET critical == \E i \in 1..Len(calls[e]) : CriticalFailureAt(e, i)
               IN  /\ result[e].status = "failed" <=> critical
                   /\ result[e].status = "success" <=> ~critical

\* A pipeline whose setup and test commands failed ended in status success.
C6_Witness ==
    \E e \in Execs :
        /\ Returned(e) /\ IsRepository(e)
        /\ result[e].status = "success"
        /\ \E i \in Ops(e, "execute") :
               calls[e][i].step = "test" /\ ~calls[e][i].ok
        /\ \E i \in Ops(e, "execute") :
               calls[e][i].step = "setup_0" /\ ~calls[e][i].ok

\* C7: a failed non-critical step (setup, test) is logged with status
\* warning, never failed.
C7_NonCriticalFailureIsWarning ==
    \A e \in Execs :
        IsRepository(e) =>
            \A i \in 1..Len(execution_log[e]) :
                (execution_log[e][i].step \notin Critical
                 /\ execution_log[e][i].status # "running")
                    => execution_log[e][i].status \in {"success", "warning"}

\* C8: the log of a returned repository result has exactly one entry per
\* issued step and no entry in status running.
C8_OneEntryPerIssuedStep ==
    \A e \in Execs :
        (Returned(e) /\ IsRepository(e) /\ Provisioned(e))
            => /\ StepsOf(result[e].logs) = IssuedSteps(e)
               /\ \A i \in 1..Len(result[e].logs) :
                      result[e].logs[i].status # "running"

\* The fixed order of the steps of a pipeline with analysis a.
Plan(a) ==
    <<"clone">>
    \o [i \in 1..Len(a.setup_commands) |-> SetupName(i - 1)]
    \o (IF a.test_command # NoneVal THEN <<"test">> ELSE << >>)
    \o (IF a.build_command # NoneVal THEN <<"build">> ELSE << >>)

\* The log is a sequence of pairs: the running entry of a step followed by
\* the final entry of the same step, for the issued steps in order.
PairedLog(e) ==
    /\ Len(execution_log[e]) = 2 * Len(IssuedSteps(e))
    /\ \A k \in 1..Len(IssuedSteps(e)) :
           /\ execution_log[e][2 * k - 1] = LogEntry(IssuedSteps(e)[k], "running")
           /\ execution_log[e][2 * k].step = IssuedSteps(e)[k]
           /\ execution_log[e][2 * k].status # "running"

C9_InOrder ==
    \A e \in Execs :
        IsRepository(e) =>
            /\ IsPrefix(IssuedSteps(e), Plan(analysis[e]))
            /\ PairedLog(e)
            /\ pc[e] \in {"stats", "stop", "store"}
                   => IssuedSteps(e) = Plan(analysis[e])

C9_AppendOnly ==
    \A e \in Execs :
        pc'[e] # "closed" =>
            /\ IsPrefix(execution_log[e], execution_log'[e])
            /\ IsPrefix(calls[e], calls'[e])

\* C9: the steps of a pipeline are issued one at a time in the order clone,
\* setup_0 .. setup_n, test, build, each after the previous one has returned,
\* and the step log only grows at its end.
C9_SequentialAppendOnly == [](C9_InOrder) /\ [][C9_AppendOnly]_vars

\* A pipeline issued clone, one setup command, test and build.
C9_Witness ==
    \E e \in Execs :
        /\ pc[e] = "done"
        /\ IssuedSteps(e) = <<"clone", "setup_0", "test", "build">>

CreateReturnedNull(e) ==
    \E i \in Ops(e, "create") : ~calls[e][i].ok

\* C10: when create returns null the execution ends at once with status
\* failed and the reason of its own (the sandbox could not be created), an
\* empty step log, and no runtime call other than that single create.
C10_EngineUnavailable ==
    \A e \in Execs :
        /\ CreateReturnedNull(e) =>
               /\ Returned(e)
               /\ result[e].status = "failed"
               /\ result[e].error = "Failed to create sandbox (Docker not available)"
               /\ result[e].logs = << >>
               /\ result[e].sandbox_id = NoSandbox
               /\ Len(calls[e]) = 1
        /\ (Returned(e)
            /\ result[e].error = "Failed to create sandbox (Docker not available)")
               => CreateReturnedNull(e)

\* A repository execution met an unreachable engine at create.
C10_Witness ==
    \E e \in Execs :
        /\ pc[e] = "done"
        /\ IsRepository(e)
        /\ ~docker_available
        /\ CreateReturnedNull(e)

\* The last runtime call of e after the step.
LastCall(e) == calls'[e][Len(calls'[e])]

\* A step in which e calls create_sandbox.
CreateStep(e) == pc[e] = "create" /\ pc'[e] # "create"

C11_CreateStepIsClean ==
    \A e \in Execs :
        CreateStep(e) =>
            /\ LastCall(e).op = "create"
            /\ outcome'[e] # "raised"
            /\ LastCall(e).step # EngineOk => LastCall(e).sandbox = NoSandbox
            /\ LastCall(e).sandbox = NoSandbox
                   => active_sandboxes' = active_sandboxes
            /\ LastCall(e).sandbox # NoSandbox
                   => /\ LastCall(e).sandbox \notin DOMAIN active_sandboxes
                      /\ DOMAIN active_sandboxes' =
                             DOMAIN active_sandboxes \cup {LastCall(e).sandbox}
                      /\ \A s \in DOMAIN active_sandboxes :
                             active_sandboxes'[s] = active_sandboxes[s]

\* C11: create never raises; when the engine is unreachable or faults at any
\* point of the creation it returns null and leaves the registry as it was,
\* and a non-null return comes with exactly one new registry entry, under the
\* returned id.
C11_CreateNullLeavesRegistry == [][C11_CreateStepIsClean]_vars

\* The engine faulted when the container was started: create returned null
\* and the registry holds nothing.
C11_Witness ==
    \E e \in Execs :
        /\ pc[e] = "done"
        /\ \E i \in Ops(e, "create") :
               /\ calls[e][i].step = "container.start"
               /\ calls[e][i].sandbox = NoSandbox
        /\ DOMAIN active_sandboxes = {}

\* C12: once a stop call on a sandbox id has returned, every further stop call
\* on that id returns false; a stop call on an id that is not registered
\* (never created, or removed) returns false as well.
C12_StopIsIdempotent ==
    /\ \A s \in DOMAIN stop_calls : ~stop_calls[s].again_true
    /\ \A s \in 1..next_sandbox :
           s \notin DOMAIN active_sandboxes
               => \A engine_ok \in BOOLEAN :
                      ~stop_sandbox(active_sandboxes, s, engine_ok).ret

\* The timeouts execute_repository gives to clone and test, setup, build.
StepTimeouts == {120, 180, 240}

\* What C13 asks of the result r of a command that took `duration` seconds
\* and ended with `exit_code`, under timeout T.
TimeoutRule(r, duration, exit_code, T) ==
    /\ duration > T => ~r.success /\ r.error = "Execution timeout"
    /\ r.success => duration <= T /\ exit_code = 0

\* C13: a command whose measured duration is strictly greater than its
\* timeout T has a result with success false that reports a timeout, whatever
\* its exit code; a result has success true only if the duration is at most T
\* and the exit code is 0.  Stated of the result every snippet run has left
\* behind, and of every command the engine could run in a registered sandbox.
C13_TimeoutIsFailure ==
    /\ \A e \in Execs :
           (req[e].kind = "snippet" /\ pc[e] \in {"cleanup", "done"}
            /\ Ops(e, "execute") # {})
               => /\ run_result[e].execution_time > req[e].timeout
                      => /\ ~run_result[e].success
                         /\ run_result[e].error = "Execution timeout"
                  /\ run_result[e].success
                      => /\ run_result[e].execution_time <= req[e].timeout
                         /\ run_result[e].exit_code = 0
    /\ \A s \in DOMAIN active_sandboxes :
           \A run \in EngineRuns, T \in StepTimeouts \cup SnippetTimeouts :
               ~run.fault =>
                   TimeoutRule(execute_in_sandbox(active_sandboxes, s, run, T),
                               run.duration, run.exit_code, T)

\* A snippet with a timeout of 5 seconds ended by itself after 130 seconds
\* and was reported as timed out.
C13_Witness ==
    \E e \in Execs :
        /\ req[e].kind = "snippet" /\ pc[e] = "cleanup"
        /\ req[e].timeout = 5
        /\ run_result[e].execution_time = 130
        /\ ~run_result[e].success
        /\ run_result[e].error = "Execution timeout"

\* C14: the exit_code of the result of a timed-out command is a value that
\* the result of no other outcome carries: not that of a command that failed
\* by itself, nor that of an engine fault, nor that of a call on an unknown
\* sandbox (next_sandbox is an id no sandbox has been given yet).
C14_TimeoutExitCodeIsItsOwn ==
    \A e \in Execs :
        (req[e].kind = "snippet" /\ pc[e] \in {"cleanup", "done"}
         /\ run_result[e].error = "Execution timeout")
            => \A s \in {sandbox_id[e], next_sandbox}, run \in EngineRuns :
                   LET r == execute_in_sandbox(active_sandboxes, s, run,
                                               req[e].timeout)
                   IN  r.error # "Execution timeout"
                           => r.exit_code # run_result[e].exit_code

SnippetFailed(e) ==
    pc[e] = "done" /\ outcome[e] = "returned" /\ result[e].status = "failed"

C15_TimedOutIsFailed ==
    \A e \in Execs :
        (req[e].kind = "snippet" /\ pc[e] = "done"
         /\ run_result[e].error = "Execution timeout")
            => SnippetFailed(e)

\* C15: a snippet whose command runs longer than its timeout ends with status
\* failed, and the handler that runs a command, also one that never ends by
\* itself, always gets to its return: such a program ends in status failed.
C15_LongSnippetReturnsFailed ==
    /\ \A e \in Execs : (pc[e] = "run") ~> (pc[e] = "done")
    /\ \A e \in Execs :
           (pc[e] = "run" /\ ~req[e].code.halts) ~> SnippetFailed(e)
    /\ [](C15_TimedOutIsFailed)

\* A program that never ends by itself was reported as timed out and the
\* snippet returned with status failed.
C15_Witness ==
    \E e \in Execs :
        /\ req[e].kind = "snippet"
        /\ ~req[e].code.halts
        /\ run_result[e].error = "Execution timeout"
        /\ SnippetFailed(e)

\* C16: once the time elapsed since the pipeline started exceeds the
\* pipeline's timeout no further step is issued (the pipeline is not about to
\* issue setup, test or build), and the execution ends with a failure, not
\* with status success.
C16_PipelineBoundedByTimeout ==
    \A e \in Execs :
        (IsRepository(e) /\ Provisioned(e) /\ elapsed[e] > req[e].timeout)
            => /\ pc[e] \notin {"setup", "test", "build"}
               /\ pc[e] = "done" => result[e].status = "failed"

\* A step in which POST /sandbox/cleanup runs the sweep.
SweepStep == cleaned = NoCount /\ cleaned' # NoCount

\* The ids the registry loses in the step.
Removed == DOMAIN active_sandboxes \ DOMAIN active_sandboxes'

C17_SweepStepIsComplete ==
    SweepStep
        => /\ \A s \in DOMAIN active_sandboxes' : ~Expired(active_sandboxes'[s])
           /\ cleaned' = Cardinality(Removed)
           /\ \A s \in DOMAIN active_sandboxes :
                  ~Expired(active_sandboxes[s])
                      => /\ s \in DOMAIN active_sandboxes'
                         /\ active_sandboxes'[s] = active_sandboxes[s]

\* C17: after the sweep has returned no registered sandbox is older than its
\* timeout, the count it returns is the number of sandboxes it removed, and
\* every sandbox that is not older than its timeout is left in the registry
\* unchanged.
C17_SweepRemovesEveryExpired == [][C17_SweepStepIsComplete]_vars

\* C18: in every reachable state no registered sandbox is older than its
\* declared timeout.
C18_NoSandboxPastItsTimeout ==
    \A s \in DOMAIN active_sandboxes : ~Expired(active_sandboxes[s])

\* C20: the registry changes one call at a time, so that no entry is lost
\* (an id leaves the registry only through a stop call that returned true)
\* and none is deleted twice; and when stop has been called twice on a
\* sandbox, by the handler that owns it and by a sweep, exactly one of the two
\* calls has returned true and the entry is gone.
C20_StopsAreSerialized ==
    /\ \A s \in 1..(next_sandbox - 1) :
           s \notin DOMAIN active_sandboxes
               => /\ s \in DOMAIN stop_calls
                  /\ stop_calls[s].first \/ stop_calls[s].again_true
    /\ \A s \in DOMAIN stop_calls :
           /\ ~(stop_calls[s].first /\ stop_calls[s].again_true)
           /\ stop_calls[s].again
                  => /\ stop_calls[s].first # stop_calls[s].again_true
                     /\ s \notin DOMAIN active_sandboxes

\* A step in which GET /sandbox/stats calls get_sandbox_stats.
StatsQueryStep == response.op = "none" /\ response'.op = "get_sandbox_stats"

\* A step in which the pipeline of e calls get_sandbox_stats.
StatsCallStep(e) == pc[e] = "stats" /\ pc'[e] # "stats"

C21_StatsStepIsReadOnly ==
    /\ StatsQueryStep =>
           /\ active_sandboxes' = active_sandboxes
           /\ response'.ret \in {"snapshot", NoneVal}
           /\ response'.arg \notin DOMAIN active_sandboxes
                  => response'.ret = NoneVal
    /\ \A e \in Execs :
           StatsCallStep(e) =>
               /\ active_sandboxes' = active_sandboxes
               /\ outcome'[e] # "raised"
               /\ stats'[e] \in {"snapshot", NoneVal}
               /\ sandbox_id[e] \notin DOMAIN active_sandboxes
                      => stats'[e] = NoneVal

\* C21: a statistics query returns null for every sandbox id that is not, or
\* no longer, in the registry; at whatever point between the calls of the
\* handlers it is made, before or after the stop of the sandbox, it returns a
\* snapshot or null, it never raises and it leaves the registry as it was.
C21_StatsIsReadOnly == [][C21_StatsStepIsReadOnly]_vars

\* The statistics of a sandbox were asked for after its pipeline had stopped
\* it, and the answer was null.
C21_Witness ==
    /\ response.op = "get_sandbox_stats"
    /\ response.ret = NoneVal
    /\ response.arg \in DOMAIN stop_calls
    /\ stop_calls[response.arg].first
    /\ response.arg \notin DOMAIN active_sandboxes

\* C22: an execution that has returned in a terminal state (success, failed or
\* error, snippet or repository) is in the history: get_result with its
\* execution id returns the result it returned.
C22_TerminalResultIsInHistory ==
    \A e \in Execs :
        (Returned(e) /\ result[e].status \in {"success", "failed", "error"})
            => get_execution_result(execution_history, e) = result[e]

\* The capacity of the history: the spec names none, so it is taken to be
\* the number of results the pipelines before have left at most.
HistoryCapacity == MaxPast

\* A step that stores a result in a history that is full.
StoreWhenFull ==
    /\ execution_history' # execution_history
    /\ Len(execution_history) = HistoryCapacity

C23_OldestIsEvicted ==
    StoreWhenFull
        => /\ Len(execution_history') = HistoryCapacity
           /\ \A i \in 1..Len(execution_history') :
                  execution_history'[i].execution_id
                      # execution_history[1].execution_id

\* C23: the history never holds more results than its capacity, and a result
\* stored in a full history takes the place of the oldest one.
C23_HistoryIsBounded ==
    /\ [](Len(execution_history) <= HistoryCapacity)
    /\ [][C23_OldestIsEvicted]_vars

Reverse(seq) == [i \in 1..Len(seq) |-> seq[Len(seq) + 1 - i]]

\* The results in the order in which they were completed, the last one
\* first: a result is stored when its pipeline completes.
RecentFirst == Reverse(Values(execution_history))

\* C24: the list GET /execute/history answers with for limit N has at most N
\* entries and holds the results in descending order of completion, the one
\* completed last first, for every N and every history.
C24_ListHistoryIsRecentFirst ==
    (response.op = "get_execution_history" /\ response.status = 200)
        => /\ Len(response.ret) <= response.arg
           /\ IsPrefix(response.ret, RecentFirst)

OpsOf(seq) == [i \in 1..Len(seq) |-> seq[i].op]

\* The operations of a pipeline that ran to its end: create, one execute
\* for each step of the plan, stats, stop.
FullPipeline(a) ==
    <<"create">> \o [i \in 1..Len(Plan(a)) |-> "execute"] \o <<"stats", "stop">>

InHistory(e) ==
    \E i \in 1..Len(execution_history) : execution_history[i].execution_id = e

\* C25: the runtime calls of a repository execution are made in the order
\* create, step executes, stats, stop, and a pipeline that ran to its end has
\* made all of them; the statistics are read while the sandbox is still
\* registered; the result is in the history only after the stop; and after
\* its stop call an execution makes no execute, upload or stats call.
C25_CallsInOrder ==
    \A e \in Execs :
        /\ \A i \in Ops(e, "create") : i = 1
        /\ \A i \in Ops(e, "execute") \cup Ops(e, "upload") :
               /\ \A j \in Ops(e, "stats") : i < j
               /\ \A j \in Ops(e, "stop") : i < j
        /\ \A i \in Ops(e, "stats") : \A j \in Ops(e, "stop") : i < j
        /\ \A j \in Ops(e, "stop") : j = Len(calls[e])
        /\ pc[e] = "stats" => sandbox_id[e] \in DOMAIN active_sandboxes
        /\ (IsRepository(e) /\ pc[e] = "store")
               => /\ OpsOf(calls[e]) = FullPipeline(analysis[e])
                  /\ ~InHistory(e)
        /\ (IsRepository(e) /\ pc[e] # "closed" /\ InHistory(e))
               => /\ OpsOf(calls[e]) = FullPipeline(analysis[e])
                  /\ pc[e] = "done"

\* A pipeline without a build step ran to its end and its result is in the
\* history: create, four step commands, stats, stop.
C25_Witness ==
    \E e \in Execs :
        /\ Returned(e) /\ IsRepository(e) /\ InHistory(e)
        /\ result[e].status = "success"
        /\ analysis[e].build_command = NoneVal
        /\ OpsOf(calls[e]) =
               <<"create", "execute", "execute", "execute", "execute",
                 "stats", "stop">>

\* The sandboxes named by the results of the history that belong to an
\* execution other than e.
SandboxesOfOthers(e) ==
    { execution_history[i].result.sandbox_id :
        i \in { j \in 1..Len(execution_history) :
                  execution_history[j].execution_id # e } }

\* An execution makes at most one create call, holds the id that call
\* returned, and addresses every other call to that id.
OwnSandboxOnly(e) ==
    /\ Cardinality(Ops(e, "create")) <= 1
    /\ Provisioned(e) =>
           /\ Ops(e, "create") = {1}
           /\ calls[e][1].sandbox = sandbox_id[e]
    /\ \A i \in 1..Len(calls[e]) :
           calls[e][i].op # "create" =>
               /\ Provisioned(e)
               /\ calls[e][i].sandbox = sandbox_id[e]

\* A create that returned an id added exactly that id to the registry, and
\* the id is one no execution had before.
CreatedIsNew(e) ==
    (CreateStep(e) /\ sandbox_id'[e] # NoSandbox) =>
        /\ sandbox_id'[e] \notin DOMAIN active_sandboxes
        /\ DOMAIN active_sandboxes' = DOMAIN active_sandboxes \cup {sandbox_id'[e]}
        /\ sandbox_id'[e] \notin SandboxesOfOthers(e)
        /\ sandbox_id'[e] \notin DOMAIN stop_calls
        /\ \A d \in Execs \ {e} : sandbox_id[d] # sandbox_id'[e]

NoConfidentMatch(repo_data) ==
    LET language == IF repo_data.language = NoneVal
                      THEN "" ELSE Lower(repo_data.language)
    IN  /\ \A name \in {"python", "javascript", "typescript", "dart", "java",
                        "go", "golang", "rust"} : ~Contains(name, language)
        /\ ~AnyTag(LowerAll(repo_data.tech_stack),
                   {"python", "node", "react", "vue", "angular", "nextjs",
                    "flutter", "spring", "maven", "gradle"})

AnalyzeStep(e) == pc[e] = "analyze" /\ pc'[e] # "analyze"

NotExecutableEnd(e) ==
    (AnalyzeStep(e) /\ NoConfidentMatch(req[e].repo_data)) =>
        /\ pc'[e] = "done"
        /\ outcome'[e] = "returned"
        /\ result'[e] = NotExecutableResult

\* C27: a repository whose metadata match no detection rule ends, when the
\* detection has run, with the result failed / "Repository is not
\* executable", and no sandbox is created and no runtime call is made for it.
C27_NoMatchIsNotExecutable ==
    /\ [](\A e \in Execs :
            (IsRepository(e) /\ NoConfidentMatch(req[e].repo_data)) =>
                (calls[e] = << >> /\ ~Provisioned(e)))
    /\ [][\A e \in Execs : NotExecutableEnd(e)]_vars

\* The runtime whose framework a tag names, NoneVal for any other tag.
FrameworkRuntime(tag) ==
    CASE tag \in {"react", "vue", "angular", "nextjs"} -> "node"
      [] tag = "flutter" -> "flutter"
      [] tag = "spring" -> "java"
      [] OTHER -> NoneVal

FrameworksNamed(repo_data) ==
    { FrameworkRuntime(Lower(repo_data.tech_stack[i])) :
        i \in 1..Len(repo_data.tech_stack) } \ {NoneVal}

\* The runtime detected from the declared language with no tag at all.
LanguageAlone(repo_data) ==
    analyze_repository_executability(
        [language |-> repo_data.language, tech_stack |-> << >>]).detected_runtime

Detected == response.op = "analyze_repository_executability"
            /\ response.status = Applied

\* C28: when the tags name a framework of one runtime A and the declared
\* language by itself matches another runtime B, the detected runtime is A.
C28_FrameworkTagOutranksLanguage ==
    Detected =>
        \A A \in {"node", "flutter", "java"} :
            (/\ FrameworksNamed(response.arg) = {A}
             /\ LanguageAlone(response.arg) \notin {NoneVal, A})
                => response.ret.detected_runtime = A

RECURSIVE MaxSeverity(_)
\* The highest severity among the issues, safe when there are none.
MaxSeverity(issues) ==
    IF issues = << >> THEN "safe"
    ELSE MaxRisk(MaxSeverity(Tail(issues)), Head(issues).severity)

Validated == response.op = "validate_code" /\ response.status = Applied

\* C29: the risk_level validate_code returns is the highest severity among
\* the issues it returns (safe without issues), and is_safe is
\* (risk_level # high) in strict mode and true otherwise.
C29_RiskIsMaxSeverity ==
    (Validated /\ ~response.ret.raised) =>
        /\ response.ret.risk_level = MaxSeverity(response.ret.issues)
        /\ response.ret.is_safe =
               (IF response.arg.strict_mode
                  THEN response.ret.risk_level # "high" ELSE TRUE)

\* The input is not a text in a language: the code or the language is
\* absent, or the text cannot be encoded.
Unparseable(arg) ==
    \/ arg.language = NoneVal
    \/ arg.code = AbsentCode
    \/ ~arg.code.encodable

\* C30: validate_code returns a verdict for every input and never raises,
\* and for an input that is absent or cannot be parsed as text the verdict
\* has risk_level medium and an issue.
C30_ValidateCodeIsTotal ==
    Validated =>
        /\ ~response.ret.raised
        /\ Unparseable(response.arg) =>
               /\ response.ret.risk_level = "medium"
               /\ response.ret.issues # << >>

\* The host component is one of the allow-listed domains.
HostIsAllowed(repo_url) == \E d \in safe_domains : repo_url.host = <<d>>

\* C31: validate_repository_url answers true only for a URL whose host is an
\* allow-listed domain, wherever else in the URL such a name occurs.
C31_OnlyAllowedHosts ==
    (response.op = "validate_repository_url" /\ response.status = Applied
     /\ response.ret = TRUE)
        => HostIsAllowed(response.arg)

\* The clone step of e has been issued to the sandbox.
CloneIssued(e) ==
    \E i \in Ops(e, "execute") : calls[e][i].step = "clone"

\* C32: the clone command issued to a sandbox is what sanitize_command makes
\* of it: it holds none of the characters ; & | $ ( ) < >, no backquote and no line
\* break taken from the repository URL of the caller.
C32_IssuedCommandsAreSanitized ==
    \A e \in Execs :
        CloneIssued(e) =>
            clone_command(req[e].repo_url)
                = sanitize_command(clone_command(req[e].repo_url))

\* Megabytes of the memory limits the orchestrator passes to create_sandbox.
MemoryMb(memory_limit) ==
    CASE memory_limit = "256m" -> 256
      [] memory_limit = "1g" -> 1024

\* The execution class of a request.
ClassOf(e) == IF req[e].kind = "snippet" THEN "snippet" ELSE "repo"

WithinCeilings(entry, limits) ==
    /\ MemoryMb(entry.memory_limit) <= limits.memory_mb
    /\ entry.cpu_limit <= limits.cpu_cores
    /\ entry.timeout <= limits.timeout_seconds
    /\ entry.network_enabled => limits.network_enabled

\* C33: the four classes have ceilings of their own, and the sandbox of an
\* execution is created with memory, CPU, timeout and network settings
\* within the ceilings of the class of the request.
C33_SandboxWithinClassCeilings ==
    /\ \A c, d \in {"snippet", "repo", "batch", "readme_test"} :
           c # d => get_resource_limits(c) # get_resource_limits(d)
    /\ \A e \in Execs :
           (Provisioned(e) /\ sandbox_id[e] \in DOMAIN active_sandboxes) =>
               WithinCeilings(active_sandboxes[sandbox_id[e]],
                              get_resource_limits(ClassOf(e)))

\* The upload of e's code file was called and reported failure.
UploadFailed(e) == \E i \in Ops(e, "upload") : ~calls[e][i].ok

\* C35: after an upload that failed, the snippet execution issues no run
\* command and its result is not success.
C35_NoRunAfterFailedUpload ==
    \A e \in Execs :
        UploadFailed(e) =>
            /\ \A i \in Ops(e, "execute") : calls[e][i].step # "run"
            /\ Returned(e) => result[e].status # "success"

\* What each operation returns for a sandbox that is not registered.
ReturnsFailure(op, ret) ==
    CASE op = "execute_in_sandbox" ->
             /\ ret.success = FALSE
             /\ ret.exit_code = -1
             /\ ret.error = "Sandbox not found"
      [] op = "upload_file_to_sandbox" -> ret = FALSE
      [] op = "download_file_from_sandbox" -> ret = NoneVal
      [] op = "get_sandbox_stats" -> ret = NoneVal
      [] op = "stop_sandbox" -> ret = FALSE

ManagerCallStep == response.status = Pending /\ response'.status = Applied

C36_UnknownIdStep ==
    ManagerCallStep =>
        /\ response.arg.sandbox \notin DOMAIN active_sandboxes =>
               /\ ReturnsFailure(response.op, response'.ret)
               /\ active_sandboxes' = active_sandboxes
        /\ response.op # "stop_sandbox" =>
               DOMAIN active_sandboxes' = DOMAIN active_sandboxes

\* C36: execute, upload, download, stats and stop on an id that is not
\* registered return their failure value whatever the engine would do, and
\* leave the registry as it is; execute, upload, download and stats add and
\* remove no entry for any id.
C36_UnknownIdIsRefused == [][C36_UnknownIdStep]_vars

\* A stop of an id that is not registered, on a registry that holds other
\* sandboxes and with an engine that would have stopped it, returned False.
C36_Witness ==
    /\ response.op = "stop_sandbox"
    /\ response.status = Applied
    /\ response.arg.engine_ok
    /\ response.ret = FALSE
    /\ active_sandboxes # << >>

\* A pattern of the deny-list of the language matches the code.
DenyListMatched(arg) ==
    /\ Lower(arg.language) \in DANGEROUS_PATTERNS
    /\ Lower(arg.language) \in arg.code.deny

\* C37: the verdict of validate_code is high exactly when a pattern of the
\* language's deny-list matched; without such a match it is safe or medium,
\* low is never returned, and for a language that has no deny-list the
\* verdict is not high and is_safe is true.
C37_HighIffDenyListMatched ==
    (Validated /\ ~response.ret.raised) =>
        /\ (response.ret.risk_level = "high") <=> DenyListMatched(response.arg)
        /\ ~DenyListMatched(response.arg) =>
               response.ret.risk_level \in {"safe", "medium"}
        /\ response.ret.risk_level # "low"
        /\ Lower(response.arg.language) \notin DANGEROUS_PATTERNS =>
               (response.ret.risk_level # "high" /\ response.ret.is_safe)

\* A strict verdict on a large code with a loop that matches deny-lists of
\* other languages, in a language without a deny-list: medium and safe.
C37_Witness ==
    /\ Validated
    /\ response.arg.language = "ruby"
    /\ response.arg.strict_mode
    /\ response.arg.code # AbsentCode
    /\ response.arg.code.deny # {}
    /\ response.arg.code.big
    /\ response.arg.code.loop
    /\ response.ret.risk_level = "medium"
    /\ response.ret.is_safe

RuntimeOrder == <<"python", "node", "flutter", "java", "go", "rust">>

\* The rule of a runtime matches the metadata (language in lower case).
RuleMatches(runtime, language, tags) ==
    CASE runtime = "python" ->
             Contains("python", language) \/ AnyTag(tags, {"python"})
      [] runtime = "node" ->
             \/ Contains("javascript", language)
             \/ Contains("typescript", language)
             \/ AnyTag(tags, {"node", "react", "vue", "angular", "nextjs"})
      [] runtime = "flutter" ->
             AnyTag(tags, {"flutter"}) \/ Contains("dart", language)
      [] runtime = "java" ->
             Contains("java", language)
             \/ AnyTag(tags, {"spring", "maven", "gradle"})
      [] runtime = "go" ->
             Contains("go", language) \/ Contains("golang", language)
      [] runtime = "rust" -> Contains("rust", language)

\* The runtime of the first rule of RuntimeOrder that matches, NoneVal when
\* no rule does.
FirstMatch(repo_data) ==
    LET language == Lower(repo_data.language)
        tags == LowerAll(repo_data.tech_stack)
        hits == { i \in 1..Len(RuntimeOrder) :
                    RuleMatches(RuntimeOrder[i], language, tags) }
    IN  IF hits = {} THEN NoneVal
        ELSE RuntimeOrder[CHOOSE i \in hits : \A j \in hits : i <= j]

\* What the claim says of every analysis but for the last sentence.
AnalysisIsCoherent(repo_data, a) ==
    /\ a.is_executable <=> a.detected_runtime # NoneVal
    /\ a.is_executable <=> a.confidence >= 75
    /\ ~a.is_executable =>
           /\ a.confidence = 0
           /\ a.test_command = NoneVal
           /\ a.build_command = NoneVal
    /\ a.detected_runtime = FirstMatch(repo_data)

ScriptLanguage(repo_data) ==
    Lower(repo_data.language) \in {"javascript", "typescript"}

Analysed == Detected /\ ~response.ret.raised

====
